---- MODULE Spec2Model ----
(***************************************************************************)
(* EphemeralChat: the distributed fan-out core (src/app.py, src/backend.py,*)
(* src/routers/rooms.py).  One step of an action is one run of a coroutine *)
(* between two await points of the asyncio event loop; the calls to the    *)
(* Redis client are synchronous and belong to the step that makes them.    *)
(***************************************************************************)
EXTENDS Integers, Sequences, FiniteSets, TLC

\* ------------------------------------------------------------------ bounds
NumConns == 2
NumInst == 1
NumRooms == 1
RoomLifetime == 1
MaxQueue == 2
\* the instances and the rooms of the widest specifications
MaxInst == 2
MaxRooms == 2

Conns == 1..NumConns
Insts == 1..NumInst
Rooms == 1..NumRooms
AllInsts == 1..MaxInst
AllRooms == 1..MaxRooms
Times == 0..(RoomLifetime + 1)

\* ----------------------------------------------------------- Python values
S(v) == [py |-> "str", val |-> v]
I(n) == [py |-> "int", val |-> n]
None == [py |-> "None"]

Truthy(v) == /\ v # None
             /\ v # S("")
             /\ v # I(0)

\* str(uuid.uuid4()) of the connection, uuid.uuid4().hex of the room
ConnIdStr(c) == "c" \o ToString(c)
RoomIdStr(r) == "r" \o ToString(r)
\* datetime.now().isoformat(): texts whose order is the order of the times
IsoFormat(t) == "T" \o ToString(t)
IsoTime(s) == CHOOSE t \in Times : IsoFormat(t) = s
IsoLess(a, b) == IsoTime(a) < IsoTime(b)

\* f"User_{connection_id[:8]}"
FallbackName(c) == "User_" \o ConnIdStr(c)

\* str.lower() on the names of the model
Lower(s) ==
  IF s = "Alice" THEN "alice"
  ELSE IF \E c \in Conns : s = FallbackName(c)
       THEN "user_" \o ConnIdStr(CHOOSE c \in Conns : s = FallbackName(c))
       ELSE s

\* str.strip() on the names of the model
Strip(s) == IF s = " " THEN "" ELSE s

\* ------------------------------------------------------------------- JSON
\* json.dumps of a scalar and of a flat dict; json.loads back
L(items) == [py |-> "list", val |-> items]
DumpsValue(v) ==
  IF v.py = "str" THEN [json |-> "string", lit |-> v.val]
  ELSE IF v.py = "int" THEN [json |-> "number", lit |-> v.val]
  ELSE IF v.py = "list" THEN [json |-> "array", lit |-> v.val]
  ELSE [json |-> "null"]

LoadsValue(j) ==
  IF j.json = "string" THEN S(j.lit)
  ELSE IF j.json = "number" THEN I(j.lit)
  ELSE IF j.json = "array" THEN L(j.lit)
  ELSE None

Dumps(d) == [json |-> "object", members |-> [k \in DOMAIN d |-> DumpsValue(d[k])]]

Decodable(text) == text.json = "object"

Loads(text) == [k \in DOMAIN text.members |-> LoadsValue(text.members[k])]

\* str(v) as create_room stores a field, json.loads(v) as get_room reads it
\* back: a text that is a JSON number comes back as a number, any other text
\* of the model fails to parse and is kept as it is
MaxNumeral == 20
StrOf(v) == IF v.py = "int" THEN ToString(v.val) ELSE v.val
IsNumeral(s) == \E n \in 0..MaxNumeral : ToString(n) = s
JsonLoadsStr(s) ==
  IF IsNumeral(s) THEN I(CHOOSE n \in 0..MaxNumeral : ToString(n) = s) ELSE S(s)

\* dict.get(key, default)
Get(d, k, default) == IF k \in DOMAIN d THEN d[k] ELSE default

\* ------------------------------------------------------------------ state
VARIABLES
  now,              \* wall clock
  redis_up,         \* FALSE while every call to the Redis client raises
  meta,             \* room:meta:{id}   hashes, room -> field -> text
  users,            \* room:users:{id}  sets of connection ids
  users_at,         \* room:users:{id}  the time of the last EXPIRE, 0 without key
  conn_key,         \* conn:{id}        hashes, connection -> field -> text
  pubsub,           \* open subscriptions, relay task -> queue of messages
  room_connections, \* per instance: dict room -> connections (app.py:39)
  room_pubsub_tasks,\* per instance: dict room -> relay task   (app.py:43)
  task_st,          \* relay task: "none", "pending", "polling", "sending", "done"
  task_cancel,      \* relay task: cancel() was called and not yet delivered
  task_send,        \* relay task: the sends of the pass it is gathering
  pc,               \* connection handler: the await it is suspended at
  h_inst,           \* connection handler: its instance
  h_room,           \* connection handler: room_id
  display_name,     \* connection handler: the query parameter, until app.py:189
  password,         \* connection handler: the query parameter, until app.py:171
  h_name,           \* connection handler: final_display_name
  h_count,          \* connection handler: online_count read at app.py:226
  h_await,          \* connection handler: the task it awaits at app.py:373
  close_frame,      \* connection: code and reason of the close sent, code 0 when none
  sock,             \* connection: "new", "open", "gone" (client left), "closed"
  h_welcomed,       \* connection handler: send_text of the welcome frame did not raise
  out_sent,         \* the frames the last step handed to sockets
  out_pub,          \* the envelopes the last step published, with the publisher
  requested         \* room: what the creation request asked for

vars == << now, redis_up, meta, users, users_at, conn_key, pubsub, room_connections,
           room_pubsub_tasks, task_st, task_cancel, task_send, pc, h_inst,
           h_room, display_name, password, h_name, h_count, h_await,
           h_welcomed, close_frame, sock, out_sent, out_pub, requested >>

env == << now, redis_up, requested >>
store == << meta, users, users_at, conn_key >>
tables == << room_connections, room_pubsub_tasks >>
tasks == << task_st, task_cancel, task_send >>
params == << display_name, password >>
hlocals == << params, h_name, h_count, h_await, h_welcomed >>
hands == << pc, h_inst, h_room, hlocals, close_frame, sock >>

NoTask == 0
NoSend == [relay |-> NoTask, frame |-> None, ok |-> {}, failed |-> {}]
NoPub == [by |-> 0, msgs |-> << >>]
Quiet == out_sent' = NoSend /\ out_pub' = NoPub

\* a relay task is named after the connection whose handler created it
Tasks == Conns
TaskInst(t) == h_inst[t]
TaskRoom(t) == h_room[t]

EmptyDict == [k \in {} |-> {}]
Without(d, k) == [x \in (DOMAIN d) \ {k} |-> d[x]]
With(d, k, v) == [x \in (DOMAIN d) \cup {k} |-> IF x = k THEN v ELSE d[x]]

Init ==
  /\ now = 0
  /\ redis_up = TRUE
  /\ meta = EmptyDict
  /\ users = [r \in AllRooms |-> {}]
  /\ users_at = [r \in AllRooms |-> 0]
  /\ conn_key = EmptyDict
  /\ pubsub = EmptyDict
  /\ room_connections = [i \in AllInsts |-> EmptyDict]
  /\ room_pubsub_tasks = [i \in AllInsts |-> EmptyDict]
  /\ task_st = [t \in Tasks |-> "none"]
  /\ task_cancel = [t \in Tasks |-> FALSE]
  /\ task_send = [t \in Tasks |-> [to |-> {}, frame |-> None]]
  /\ pc = [c \in Conns |-> "idle"]
  /\ h_inst = [c \in Conns |-> 1]
  /\ h_room = [c \in Conns |-> 1]
  /\ display_name = [c \in Conns |-> None]
  /\ password = [c \in Conns |-> None]
  /\ h_name = [c \in Conns |-> ""]
  /\ h_count = [c \in Conns |-> 0]
  /\ h_await = [c \in Conns |-> 0]
  /\ close_frame = [c \in Conns |-> [code |-> 0, reason |-> ""]]
  /\ sock = [c \in Conns |-> "new"]
  /\ h_welcomed = [c \in Conns |-> FALSE]
  /\ out_sent = NoSend
  /\ out_pub = NoPub
  /\ requested = EmptyDict

\* ------------------------------------------------- backend.py: RedisBackend
\* create_room: None values are skipped, the others stored as str(v)
CreateRoomHash(room_data) ==
  [k \in {f \in DOMAIN room_data : room_data[f] # None} |-> StrOf(room_data[k])]

\* get_room: None for an empty hash, else every field through json.loads
HasRoom(m, r) == r \in DOMAIN m
GetRoom(m, r) == [k \in DOMAIN m[r] |-> JsonLoadsStr(m[r][k])]

\* delete_room: the meta key and the users key
DeleteRoomMeta(m, r) == Without(m, r)
DeleteRoomUsers(u, r) == [u EXCEPT ![r] = {}]
DeleteRoomTtl(ua, r) == [ua EXCEPT ![r] = 0]

\* add_user_to_room: SADD, then HSET of the connection metadata
UserDataHash(user_data) == [k \in DOMAIN user_data |-> StrOf(user_data[k])]
AddUserSet(u, r, c) == [u EXCEPT ![r] = @ \cup {c}]
AddUserConn(ck, c, user_data) == With(ck, c, UserDataHash(user_data))
\* backend.py:82-83: EXPIRE of the users key after every SADD
ExpireUsers(ua, r, t) == [ua EXCEPT ![r] = t]

\* remove_user_from_room: SREM, then DEL of the connection metadata
RemoveUserSet(u, r, c) == [u EXCEPT ![r] = @ \ {c}]
RemoveUserConn(ck, c) == Without(ck, c)
\* SREM of the last member removes the key and its time-to-live with it
KeyOf(ua, u, r) == IF u[r] = {} THEN [ua EXCEPT ![r] = 0] ELSE ua

\* get_users_in_room: SMEMBERS
GetUsersInRoom(u, r) == u[r]

\* get_display_names_in_room: the lower-cased display names of the members
GetDisplayNamesInRoom(u, ck, r) ==
  { Lower(ck[c]["display_name"]) :
      c \in { x \in GetUsersInRoom(u, r) :
                /\ x \in DOMAIN ck
                /\ "display_name" \in DOMAIN ck[x]
                /\ ck[x]["display_name"] # "" } }

\* a variant with one channel for all the rooms
PublishToAll(ps, r, message) ==
  [t \in DOMAIN ps |-> Append(ps[t], [type |-> "message", data |-> Dumps(message)])]

\* a variant in which a subscription hands out the newest message first
PublishToFront(ps, r, message) ==
  [t \in DOMAIN ps |->
     IF TaskRoom(t) = r
     THEN << [type |-> "message", data |-> Dumps(message)] >> \o ps[t]
     ELSE ps[t]]

\* publish_message: PUBLISH of json.dumps(message) on the room's channel; every
\* subscription open on that channel queues it
PublishTo(ps, r, message) ==
  [t \in DOMAIN ps |->
     IF TaskRoom(t) = r
     THEN Append(ps[t], [type |-> "message", data |-> Dumps(message)])
     ELSE ps[t]]

\* the bound of the model on the messages a subscription holds unread
QueueRoom(ps, r, n) ==
  \A t \in DOMAIN ps : TaskRoom(t) = r => Len(ps[t]) + n <= MaxQueue

\* ------------------------------------------------------------ environment
\* the creation requests of the model: an open room of two with an owner who
\* asks for destroy_on_owner_offline, and a password room of one
Requests ==
  { [ password |-> None, max_users |-> 2, owner_name |-> S("Alice"),
      destroy_on_owner_offline |-> TRUE ],
    [ password |-> S("pw"), max_users |-> 1, owner_name |-> None,
      destroy_on_owner_offline |-> FALSE ] }

\* routers/rooms.py:26: room.expiry_seconds or 600.  The unit of the clock is
\* the default lifetime of a room.
ExpirySeconds(req) ==
  IF "expiry_seconds" \in DOMAIN req THEN req.expiry_seconds ELSE RoomLifetime

\* routers/rooms.py:33-42.  CreateRoomRequest has no field for preferences:
\* what a request says about them is dropped and room_data never holds the key
RoomData(req, t) ==
  [ expiry_seconds |-> I(ExpirySeconds(req)),
    max_users      |-> I(req.max_users),
    created_at     |-> S(IsoFormat(t)),
    expires_at     |-> S(IsoFormat(t + ExpirySeconds(req))),
    password       |-> IF Truthy(req.password) THEN req.password ELSE None,
    owner_ip       |-> S("ip1"),
    owner_name     |-> req.owner_name ]

\* POST /rooms/
CreateRoom(r, req) ==
  /\ redis_up
  /\ r \notin DOMAIN requested
  /\ now = 0
  /\ meta' = With(meta, r, CreateRoomHash(RoomData(req, now)))
  /\ requested' = With(requested, r, req)
  /\ Quiet
  /\ UNCHANGED << now, redis_up, users, users_at, conn_key, pubsub, tables, tasks, hands >>

Tick ==
  /\ now <= RoomLifetime
  /\ now' = now + 1
  /\ Quiet
  /\ UNCHANGED << redis_up, requested, store, pubsub, tables, tasks, hands >>

\* the time-to-live of room:meta:{id}, set to expiry_seconds at creation
ExpireMeta(r) ==
  /\ r \in DOMAIN meta
  /\ ~ IsoLess(IsoFormat(now), meta[r]["expires_at"])
  /\ meta' = Without(meta, r)
  /\ Quiet
  /\ UNCHANGED << env, users, users_at, conn_key, pubsub, tables, tasks, hands >>

RedisDown ==
  /\ redis_up
  /\ redis_up' = FALSE
  /\ Quiet
  /\ UNCHANGED << now, requested, store, pubsub, tables, tasks, hands >>

RedisUp ==
  /\ ~ redis_up
  /\ redis_up' = TRUE
  /\ Quiet
  /\ UNCHANGED << now, requested, store, pubsub, tables, tasks, hands >>

\* the client goes away
ClientDrop(c) ==
  /\ pc[c] \in {"accepting", "sleeping", "welcoming", "loop"}
  /\ sock[c] \in {"new", "open"}
  /\ sock' = [sock EXCEPT ![c] = "gone"]
  /\ Quiet
  /\ UNCHANGED << env, store, pubsub, tables, tasks, pc, h_inst, h_room,
                  hlocals, close_frame >>

\* --------------------------------------------- app.py: websocket_endpoint
SuppliedPasswords == {None, S("pw"), S("bad")}

PolicyViolation == 1008
NormalClosure == 1000
DefaultMaxUsers == 20

\* app.py:189
FinalDisplayName(c, dn) ==
  IF Truthy(dn) /\ Strip(dn.val) # "" THEN Strip(dn.val) ELSE FallbackName(c)

NameTaken(name) ==
  "Display name '" \o name \o "' is already taken. Please choose a different name."

\* a variant that tests the occupancy before the password
AdmissionFullFirst(m, u, ck, r, c, dn, pw, t) ==
  IF ~ HasRoom(m, r) THEN "Room not found"
  ELSE
    LET room == GetRoom(m, r)
        expires_at == Get(room, "expires_at", None)
        room_password == Get(room, "password", None)
        max_users == Get(room, "max_users", I(DefaultMaxUsers))
        final == FinalDisplayName(c, dn)
    IN  IF Truthy(expires_at) /\ IsoLess(expires_at.val, IsoFormat(t))
          THEN "Room expired"
        ELSE IF Cardinality(GetUsersInRoom(u, r)) >= max_users.val
          THEN "Room is full"
        ELSE IF /\ Truthy(room_password)
                /\ room_password # S("None")
                /\ room_password # S("")
                /\ (~ Truthy(pw) \/ room_password # pw)
          THEN "Invalid password"
        ELSE IF Lower(final) \in GetDisplayNamesInRoom(u, ck, r)
          THEN NameTaken(final)
        ELSE "ok"

\* a variant that lets one connection more than max_users in
AdmissionOffByOne(m, u, ck, r, c, dn, pw, t) ==
  IF ~ HasRoom(m, r) THEN "Room not found"
  ELSE
    LET room == GetRoom(m, r)
        expires_at == Get(room, "expires_at", None)
        room_password == Get(room, "password", None)
        max_users == Get(room, "max_users", I(DefaultMaxUsers))
        final == FinalDisplayName(c, dn)
    IN  IF Truthy(expires_at) /\ IsoLess(expires_at.val, IsoFormat(t))
          THEN "Room expired"
        ELSE IF /\ Truthy(room_password)
                /\ room_password # S("None")
                /\ room_password # S("")
                /\ (~ Truthy(pw) \/ room_password # pw)
          THEN "Invalid password"
        ELSE IF Cardinality(GetUsersInRoom(u, r)) > max_users.val
          THEN "Room is full"
        ELSE IF Lower(final) \in GetDisplayNamesInRoom(u, ck, r)
          THEN NameTaken(final)
        ELSE "ok"

\* a variant for which a room expires at its expiry time, not after it
AdmissionExpiredAtEqual(m, u, ck, r, c, dn, pw, t) ==
  IF ~ HasRoom(m, r) THEN "Room not found"
  ELSE
    LET room == GetRoom(m, r)
        expires_at == Get(room, "expires_at", None)
        room_password == Get(room, "password", None)
        max_users == Get(room, "max_users", I(DefaultMaxUsers))
        final == FinalDisplayName(c, dn)
    IN  IF Truthy(expires_at) /\ ~ IsoLess(IsoFormat(t), expires_at.val)
          THEN "Room expired"
        ELSE IF /\ Truthy(room_password)
                /\ room_password # S("None")
                /\ room_password # S("")
                /\ (~ Truthy(pw) \/ room_password # pw)
          THEN "Invalid password"
        ELSE IF Cardinality(GetUsersInRoom(u, r)) >= max_users.val
          THEN "Room is full"
        ELSE IF Lower(final) \in GetDisplayNamesInRoom(u, ck, r)
          THEN NameTaken(final)
        ELSE "ok"

\* app.py:153-196, the reason of the rejection or "ok"
Admission(m, u, ck, r, c, dn, pw, t) ==
  IF ~ HasRoom(m, r) THEN "Room not found"
  ELSE
    LET room == GetRoom(m, r)
        expires_at == Get(room, "expires_at", None)
        room_password == Get(room, "password", None)
        max_users == Get(room, "max_users", I(DefaultMaxUsers))
        final == FinalDisplayName(c, dn)
    IN  IF Truthy(expires_at) /\ IsoLess(expires_at.val, IsoFormat(t))
          THEN "Room expired"
        ELSE IF /\ Truthy(room_password)
                /\ room_password # S("None")
                /\ room_password # S("")
                /\ (~ Truthy(pw) \/ room_password # pw)
          THEN "Invalid password"
        ELSE IF Cardinality(GetUsersInRoom(u, r)) >= max_users.val
          THEN "Room is full"
        ELSE IF Lower(final) \in GetDisplayNamesInRoom(u, ck, r)
          THEN NameTaken(final)
        ELSE "ok"

\* the coroutine of the handler returns: websocket.close() without a code, and
\* its locals are gone
End(c, sk) ==
  /\ pc' = [pc EXCEPT ![c] = "done"]
  /\ sock' = [sk EXCEPT ![c] = "closed"]
  /\ close_frame' = [close_frame EXCEPT ![c] = [code |-> NormalClosure, reason |-> ""]]
  /\ h_name' = [h_name EXCEPT ![c] = ""]
  /\ h_count' = [h_count EXCEPT ![c] = 0]
  /\ h_await' = [h_await EXCEPT ![c] = NoTask]
  /\ h_welcomed' = [h_welcomed EXCEPT ![c] = FALSE]
  /\ display_name' = [display_name EXCEPT ![c] = None]
  /\ password' = [password EXCEPT ![c] = None]

\* app.py:151-196: the admission checks, up to the first await
Connect(c, i, r, dn, pw) ==
  /\ pc[c] = "idle"
  /\ h_inst' = [h_inst EXCEPT ![c] = i]
  /\ h_room' = [h_room EXCEPT ![c] = r]
  /\ IF ~ redis_up
     THEN End(c, sock)
     ELSE LET res == Admission(meta, users, conn_key, r, c, dn, pw, now)
          IN  /\ display_name' = [display_name EXCEPT ![c] = dn]
              /\ password' = [password EXCEPT ![c] = pw]
              /\ IF res = "ok"
                 THEN /\ pc' = [pc EXCEPT ![c] = "accepting"]
                      /\ h_name' = [h_name EXCEPT ![c] = FinalDisplayName(c, dn)]
                      /\ UNCHANGED << sock, close_frame, h_count, h_await, h_welcomed >>
                 ELSE /\ pc' = [pc EXCEPT ![c] = "rejecting"]
                      /\ close_frame' = [close_frame EXCEPT ![c] =
                                           [code |-> PolicyViolation, reason |-> res]]
                      /\ UNCHANGED << sock, h_name, h_count, h_await, h_welcomed >>
  /\ Quiet
  /\ UNCHANGED << env, store, pubsub, tables, tasks >>

\* a variant that deletes the room after every rejection
RejectClosedDeletes(c) ==
  /\ pc[c] = "rejecting"
  /\ pc' = [pc EXCEPT ![c] = "idle"]
  /\ display_name' = [display_name EXCEPT ![c] = None]
  /\ password' = [password EXCEPT ![c] = None]
  /\ meta' = DeleteRoomMeta(meta, h_room[c])
  /\ users' = DeleteRoomUsers(users, h_room[c])
  /\ users_at' = DeleteRoomTtl(users_at, h_room[c])
  /\ Quiet
  /\ close_frame' = [close_frame EXCEPT ![c] = [code |-> 0, reason |-> ""]]
  /\ UNCHANGED << env, conn_key, pubsub, tables, tasks, h_inst, h_room,
                  h_name, h_count, h_await, h_welcomed, sock >>

\* app.py:156-196: the close of a rejection returns; an expired room is
\* deleted.  Nothing is left of the handler: the client may try again.
RejectClosed(c) ==
  /\ pc[c] = "rejecting"
  /\ pc' = [pc EXCEPT ![c] = "idle"]
  /\ display_name' = [display_name EXCEPT ![c] = None]
  /\ password' = [password EXCEPT ![c] = None]
  /\ IF close_frame[c].reason = "Room expired" /\ redis_up
     THEN /\ meta' = DeleteRoomMeta(meta, h_room[c])
          /\ users' = DeleteRoomUsers(users, h_room[c])
          /\ users_at' = DeleteRoomTtl(users_at, h_room[c])
     ELSE UNCHANGED << meta, users, users_at >>
  /\ Quiet
  /\ close_frame' = [close_frame EXCEPT ![c] = [code |-> 0, reason |-> ""]]
  /\ UNCHANGED << env, conn_key, pubsub, tables, tasks, h_inst, h_room,
                  h_name, h_count, h_await, h_welcomed, sock >>

\* app.py:244-252
WelcomeMsg(c, r, t, roster, count) ==
  [ type          |-> S("system"),
    message       |-> S("Connected to room"),
    room_id       |-> S(RoomIdStr(r)),
    connection_id |-> S(ConnIdStr(c)),
    timestamp     |-> S(IsoFormat(t)),
    online_users  |-> L(roster),
    online_count  |-> I(count) ]

\* app.py:229-240
OnlineUsersList(u, ck, r) ==
  { [ connection_id |-> ConnIdStr(x),
      display_name  |-> ck[x]["display_name"],
      connected_at  |-> Get(ck[x], "connected_at", "") ] :
      x \in { y \in GetUsersInRoom(u, r) :
                y \in DOMAIN ck /\ "display_name" \in DOMAIN ck[y] } }

\* a variant that counts the members the joiner found
OnlineCountOthers(u, r) == Cardinality(GetUsersInRoom(u, r)) - 1

\* app.py:226, the count of the welcome frame and of user_online
OnlineCount(u, r) == Cardinality(GetUsersInRoom(u, r))

\* app.py:257-265 and app.py:336-344
PresenceMsg(event, c, name, r, t, count) ==
  [ type          |-> S("presence"),
    event         |-> S(event),
    connection_id |-> S(ConnIdStr(c)),
    display_name  |-> S(name),
    room_id       |-> S(RoomIdStr(r)),
    timestamp     |-> S(IsoFormat(t)),
    online_count  |-> I(count) ]

\* app.py:354-359
OwnerOfflineMsg(r, t) ==
  [ type      |-> S("system"),
    message   |-> S("Room owner went offline shutting down room"),
    room_id   |-> S(RoomIdStr(r)),
    timestamp |-> S(IsoFormat(t)) ]

\* app.py:215-253: the membership, the roster, the welcome frame.  A failure
\* of the store ends the handler in the outer except, without the teardown.
JoinStore(c, sk) ==
  LET r == h_room[c]
      user_data == [ connected_at |-> S(IsoFormat(now)),
                     room_id      |-> S(RoomIdStr(r)),
                     display_name |-> S(h_name[c]) ]
      u1 == AddUserSet(users, r, c)
      ck1 == AddUserConn(conn_key, c, user_data)
      count == OnlineCount(u1, r)
      welcome == WelcomeMsg(c, r, now, OnlineUsersList(u1, ck1, r), count)
  IN  IF ~ redis_up
      THEN /\ End(c, sk)
           /\ Quiet
           /\ UNCHANGED << users, users_at, conn_key >>
      ELSE /\ users' = u1
           /\ users_at' = ExpireUsers(users_at, r, now)
           /\ conn_key' = ck1
           /\ h_count' = [h_count EXCEPT ![c] = count]
           /\ h_welcomed' = [h_welcomed EXCEPT ![c] = (sk[c] = "open")]
           /\ pc' = [pc EXCEPT ![c] = "welcoming"]
           /\ sock' = sk
           /\ display_name' = [display_name EXCEPT ![c] = None]
           /\ password' = [password EXCEPT ![c] = None]
           /\ out_sent' = [ relay  |-> NoTask,
                            frame  |-> Dumps(welcome),
                            ok     |-> IF sk[c] = "open" THEN {c} ELSE {},
                            failed |-> IF sk[c] = "open" THEN {} ELSE {c} ]
           /\ out_pub' = NoPub
           /\ UNCHANGED << close_frame, h_name, h_await >>

\* app.py:209, the test that starts a relay task
NeedsTask(table, st, r) == r \notin DOMAIN table \/ st[table[r]] = "done"

\* app.py:199-213: accept returns; the connection is registered and the relay
\* task started when the table has none that runs.  Without a new task there
\* is no await before app.py:253.
Accept(c) ==
  LET i == h_inst[c]
      r == h_room[c]
      rc == room_connections[i]
  IN
  /\ pc[c] = "accepting"
  /\ IF sock[c] = "gone"
     THEN /\ End(c, sock)
          /\ Quiet
          /\ UNCHANGED << users, users_at, conn_key, tables, task_st >>
     ELSE /\ room_connections' =
               [room_connections EXCEPT ![i] = With(rc, r, Get(rc, r, {}) \cup {c})]
          /\ IF NeedsTask(room_pubsub_tasks[i], task_st, r)
             THEN /\ task_st' = [task_st EXCEPT ![c] = "pending"]
                  /\ room_pubsub_tasks' =
                       [room_pubsub_tasks EXCEPT ![i] = With(@, r, c)]
                  /\ pc' = [pc EXCEPT ![c] = "sleeping"]
                  /\ sock' = [sock EXCEPT ![c] = "open"]
                  /\ display_name' = [display_name EXCEPT ![c] = None]
                  /\ password' = [password EXCEPT ![c] = None]
                  /\ Quiet
                  /\ UNCHANGED << users, users_at, conn_key, h_name, h_count, h_await,
                                  h_welcomed, close_frame >>
             ELSE /\ JoinStore(c, [sock EXCEPT ![c] = "open"])
                  /\ UNCHANGED << room_pubsub_tasks, task_st >>
  /\ UNCHANGED << env, meta, pubsub, task_cancel, task_send, h_inst, h_room >>

\* app.py:213-253: the sleep after the start of the relay task returns.  The
\* first step of the task was scheduled before the timer of the sleep.
SleepDone(c) ==
  /\ pc[c] = "sleeping"
  /\ task_st[c] # "pending"
  /\ JoinStore(c, sock)
  /\ UNCHANGED << env, meta, pubsub, tables, tasks, h_inst, h_room >>

\* room.get("preferences", {}) and the flag read at app.py:351-352
DestroyOnOwnerOffline(room) ==
  LET preferences == Get(room, "preferences", [py |-> "dict", val |-> EmptyDict])
  IN  /\ preferences.py = "dict"
      /\ Get(preferences.val, "destroy_on_owner_offline", FALSE)

\* app.py:333-334: the display name read from conn:{id} at teardown
OfflineDisplayName(ck, c) ==
  IF c \in DOMAIN ck THEN Get(ck[c], "display_name", FallbackName(c))
  ELSE FallbackName(c)

\* a variant that counts the members before the removal
OfflineCountStale(u, r) == Cardinality(GetUsersInRoom(u, r)) + 1

\* app.py:343: the count of user_offline
OfflineCount(u, r) == Cardinality(GetUsersInRoom(u, r))

\* app.py:319-388: the finally block, up to `await room_pubsub_tasks[room_id]`
\* or to the end of the handler
Teardown(c) ==
  LET i == h_inst[c]
      r == h_room[c]
      rc == room_connections[i]
      rc1 == IF r \in DOMAIN rc THEN With(rc, r, rc[r] \ {c}) ELSE rc
      u1 == RemoveUserSet(users, r, c)
      ck1 == RemoveUserConn(conn_key, c)
      offline_name == OfflineDisplayName(ck1, c)
      offline == PresenceMsg("user_offline", c, offline_name, r, now,
                             OfflineCount(u1, r))
      ps1 == PublishTo(pubsub, r, offline)
      destroy == /\ HasRoom(meta, r)
                 /\ S(offline_name) = Get(GetRoom(meta, r), "owner_name", None)
                 /\ DestroyOnOwnerOffline(GetRoom(meta, r))
      empty == r \in DOMAIN rc1 /\ rc1[r] = {}
      table == room_pubsub_tasks[i]
  IN
  /\ redis_up => QueueRoom(pubsub, r, IF destroy THEN 2 ELSE 1)
  /\ out_sent' = NoSend
  /\ IF ~ redis_up
     THEN \* remove_user_from_room raises: outer except
          /\ room_connections' = [room_connections EXCEPT ![i] = rc1]
          /\ End(c, sock)
          /\ out_pub' = NoPub
          /\ UNCHANGED << store, pubsub, task_cancel >>
     ELSE /\ conn_key' = ck1
          /\ IF destroy
             THEN /\ pubsub' = PublishTo(ps1, r, OwnerOfflineMsg(r, now))
                  /\ out_pub' = [by |-> c, msgs |-> << offline, OwnerOfflineMsg(r, now) >>]
                  /\ meta' = DeleteRoomMeta(meta, r)
                  /\ users' = DeleteRoomUsers(u1, r)
                  /\ users_at' = DeleteRoomTtl(users_at, r)
             ELSE /\ pubsub' = ps1
                  /\ out_pub' = [by |-> c, msgs |-> << offline >>]
                  /\ meta' = meta
                  /\ users' = u1
                  /\ users_at' = KeyOf(users_at, u1, r)
          /\ room_connections' =
               [room_connections EXCEPT ![i] = IF empty THEN Without(rc1, r) ELSE rc1]
          /\ IF empty /\ r \in DOMAIN table
             THEN /\ task_cancel' = [task_cancel EXCEPT ![table[r]] =
                                       task_st[table[r]] # "done"]
                  /\ h_await' = [h_await EXCEPT ![c] = table[r]]
                  /\ pc' = [pc EXCEPT ![c] = "await_task"]
                  /\ UNCHANGED << sock, close_frame, params, h_name, h_count,
                                  h_welcomed >>
             ELSE /\ End(c, sock)
                  /\ UNCHANGED task_cancel
  /\ UNCHANGED << env, room_pubsub_tasks, task_st, task_send, h_inst, h_room >>

\* app.py:253-267: the send of the welcome frame returns; user_online is
\* published, or the failure of either ends the handler
WelcomeDone(c) ==
  LET r == h_room[c]
      online == PresenceMsg("user_online", c, h_name[c], r, now, h_count[c])
  IN
  /\ pc[c] = "welcoming"
  /\ QueueRoom(pubsub, r, 1)
  /\ IF h_welcomed[c] /\ redis_up
     THEN /\ pubsub' = PublishTo(pubsub, r, online)
          /\ out_pub' = [by |-> c, msgs |-> << online >>]
          /\ out_sent' = NoSend
          /\ pc' = [pc EXCEPT ![c] = "loop"]
          /\ UNCHANGED << env, store, tables, tasks, h_inst, h_room, hlocals,
                          close_frame, sock >>
     ELSE Teardown(c)

\* app.py:273, 310-315: receive_text raises for a client that left
Disconnect(c) ==
  /\ pc[c] = "loop"
  /\ sock[c] = "gone"
  /\ Teardown(c)

\* app.py:373-388: the awaited relay task is done; the entry of the table is
\* deleted, a KeyError when it is gone
TaskAwaited(c) ==
  LET i == h_inst[c]
      r == h_room[c]
  IN
  /\ pc[c] = "await_task"
  /\ task_st[h_await[c]] = "done"
  /\ room_pubsub_tasks' =
       [room_pubsub_tasks EXCEPT ![i] = IF r \in DOMAIN @ THEN Without(@, r) ELSE @]
  /\ End(c, sock)
  /\ Quiet
  /\ UNCHANGED << env, store, pubsub, room_connections, tasks, h_inst, h_room >>

\* app.py:186: connection_id = str(uuid.uuid4()).  The id of a handler that
\* has returned, of which the instance, its relay tasks, the store and the
\* broker hold nothing any more, stands for the fresh id of the next connection.
Forgotten(c) ==
  /\ \A i \in AllInsts : \A r \in DOMAIN room_connections[i] : c \notin room_connections[i][r]
  /\ \A i \in AllInsts : \A r \in DOMAIN room_pubsub_tasks[i] : room_pubsub_tasks[i][r] # c
  /\ \A r \in AllRooms : c \notin users[r]
  /\ c \notin DOMAIN conn_key
  /\ c \notin DOMAIN pubsub
  /\ task_st[c] \in {"none", "done"}
  /\ \A d \in Conns : h_await[d] # c
  /\ \A t \in Tasks : c \notin task_send[t].to

NewConnection(c) ==
  /\ pc[c] = "done"
  /\ Forgotten(c)
  /\ pc' = [pc EXCEPT ![c] = "idle"]
  /\ sock' = [sock EXCEPT ![c] = "new"]
  /\ close_frame' = [close_frame EXCEPT ![c] = [code |-> 0, reason |-> ""]]
  /\ task_st' = [task_st EXCEPT ![c] = "none"]
  /\ Quiet
  /\ UNCHANGED << env, store, pubsub, tables, task_cancel, task_send, h_inst,
                  h_room, hlocals >>

\* --------------------------------------- app.py: listen_to_redis_channel
\* a variant that leaves the subscription open
RelayFinallyLeaks(t, ps) ==
  LET i == TaskInst(t)
      r == TaskRoom(t)
  IN
  /\ pubsub' = ps
  /\ room_pubsub_tasks' =
       [room_pubsub_tasks EXCEPT ![i] = IF r \in DOMAIN @ THEN Without(@, r) ELSE @]
  /\ task_st' = [task_st EXCEPT ![t] = "done"]
  /\ task_cancel' = [task_cancel EXCEPT ![t] = FALSE]
  /\ task_send' = [task_send EXCEPT ![t] = [to |-> {}, frame |-> None]]

\* app.py:127-137: the finally block of the relay task
RelayFinally(t, ps) ==
  LET i == TaskInst(t)
      r == TaskRoom(t)
  IN
  /\ pubsub' = IF t \in DOMAIN ps THEN Without(ps, t) ELSE ps
  /\ room_pubsub_tasks' =
       [room_pubsub_tasks EXCEPT ![i] = IF r \in DOMAIN @ THEN Without(@, r) ELSE @]
  /\ task_st' = [task_st EXCEPT ![t] = "done"]
  /\ task_cancel' = [task_cancel EXCEPT ![t] = FALSE]
  /\ task_send' = [task_send EXCEPT ![t] = [to |-> {}, frame |-> None]]

\* a variant that polls on whatever the registry holds
LoopTopNeverExits(t, ps, rcs) ==
  /\ pubsub' = ps
  /\ task_st' = [task_st EXCEPT ![t] = "polling"]
  /\ task_send' = [task_send EXCEPT ![t] = [to |-> {}, frame |-> None]]
  /\ UNCHANGED << room_pubsub_tasks, task_cancel >>

\* app.py:60-75: the head of the loop, the exit when the room has no local
\* connection, else the next poll
LoopTop(t, ps, rcs) ==
  LET i == TaskInst(t)
      r == TaskRoom(t)
  IN  IF r \notin DOMAIN rcs[i] \/ rcs[i][r] = {}
      THEN RelayFinally(t, ps)
      ELSE /\ pubsub' = ps
           /\ task_st' = [task_st EXCEPT ![t] = "polling"]
           /\ task_send' = [task_send EXCEPT ![t] = [to |-> {}, frame |-> None]]
           /\ UNCHANGED << room_pubsub_tasks, task_cancel >>

\* app.py:46-75: the first step of the task, the subscription included.  A
\* task cancelled before its first step never runs its body.
RelayStart(t) ==
  /\ task_st[t] = "pending"
  /\ IF task_cancel[t]
     THEN /\ task_st' = [task_st EXCEPT ![t] = "done"]
          /\ task_cancel' = [task_cancel EXCEPT ![t] = FALSE]
          /\ UNCHANGED << pubsub, room_pubsub_tasks, task_send >>
     ELSE IF ~ redis_up
          THEN RelayFinally(t, pubsub)
          ELSE LoopTop(t, With(pubsub, t, << >>), room_connections)
  /\ Quiet
  /\ UNCHANGED << env, store, room_connections, hands >>

\* app.py:98-103: ws.send_text(...) is the call of a coroutine function, which
\* runs nothing of its body: the call itself never raises
SendCallRaises(c, sk) == FALSE

\* app.py:81-82, 85: the messages the relay task passes on
Relayable(message) ==
  /\ message.type \in {"message", "presence"}
  /\ Decodable(message.data)

\* app.py:99: the text of the frame of a pass
FrameOf(message) == Dumps(Loads(message.data))

\* a variant in which a message that cannot be processed ends the task
SkipEndsTask(t, ps) ==
  /\ RelayFinally(t, ps)
  /\ UNCHANGED << room_connections, users, users_at, conn_key >>

\* app.py:82-86, 117-120: a message of another type, a payload json.loads
\* rejects (JSONDecodeError) or one that is not an object (message_data.get
\* raises AttributeError) is logged; the loop goes on
SkipMessage(t, ps) ==
  /\ LoopTop(t, ps, room_connections)
  /\ UNCHANGED << room_connections, users, users_at, conn_key >>

\* app.py:75-115: get_message returns in the executor; a message is decoded
\* and its sends are created, the marked connections are cleaned up, and the
\* task awaits the gather of the sends
RelayWake(t) ==
  LET i == TaskInst(t)
      r == TaskRoom(t)
      q == pubsub[t]
      rc == room_connections[i]
      message == Head(q)
      ps1 == [pubsub EXCEPT ![t] = Tail(q)]
      targets == IF r \in DOMAIN rc THEN rc[r] ELSE {}
      disconnected == {c \in targets : SendCallRaises(c, sock)}
      send_tasks == targets \ disconnected
      rc1 == IF r \in DOMAIN rc THEN With(rc, r, rc[r] \ disconnected) ELSE rc
      rcs1 == [room_connections EXCEPT ![i] = rc1]
  IN
  /\ task_st[t] = "polling"
  /\ IF task_cancel[t]
     THEN /\ RelayFinally(t, pubsub)
          /\ UNCHANGED << room_connections, users, users_at, conn_key >>
     ELSE IF redis_up /\ q # << >>
          THEN IF Relayable(message)
               THEN /\ room_connections' = rcs1
                    /\ users' = [users EXCEPT ![r] = @ \ disconnected]
                    /\ users_at' = KeyOf(users_at, users', r)
                    /\ conn_key' = [c \in (DOMAIN conn_key) \ disconnected |-> conn_key[c]]
                    /\ IF send_tasks # {}
                       THEN /\ pubsub' = ps1
                            /\ task_st' = [task_st EXCEPT ![t] = "sending"]
                            /\ task_send' = [task_send EXCEPT ![t] =
                                               [to |-> send_tasks, frame |-> FrameOf(message)]]
                            /\ UNCHANGED << room_pubsub_tasks, task_cancel >>
                       ELSE LoopTop(t, ps1, rcs1)
               ELSE SkipMessage(t, ps1)
          ELSE /\ LoopTop(t, pubsub, room_connections)
               /\ UNCHANGED << room_connections, users, users_at, conn_key >>
  /\ Quiet
  /\ UNCHANGED << env, meta, hands >>

\* a variant in which the first send that raises ends the pass
GatherStopsAtFailure(t, to, frame, sk) ==
  [ relay  |-> t,
    frame  |-> frame,
    ok     |-> IF \E c \in to : sk[c] # "open" THEN {} ELSE to,
    failed |-> {c \in to : sk[c] # "open"} ]

\* app.py:114: asyncio.gather(*send_tasks, return_exceptions=True): every send
\* is attempted, the sends that raise are results nobody reads
Gather(t, to, frame, sk) ==
  [ relay  |-> t,
    frame  |-> frame,
    ok     |-> {c \in to : sk[c] = "open"},
    failed |-> {c \in to : sk[c] # "open"} ]

\* app.py:114-115, 122-124: the gather returns, all its sends attempted, or
\* the cancellation reaches the task while it awaits it, the sends to `ran`
\* attempted and the others cancelled
RelayGathered(t, ran) ==
  /\ task_st[t] = "sending"
  /\ ran \subseteq task_send[t].to
  /\ ran = task_send[t].to \/ task_cancel[t]
  /\ out_sent' = IF ran # {}
                 THEN Gather(t, ran, task_send[t].frame, sock)
                 ELSE NoSend
  /\ out_pub' = NoPub
  /\ IF task_cancel[t]
     THEN RelayFinally(t, pubsub)
     ELSE LoopTop(t, pubsub, room_connections)
  /\ UNCHANGED << env, store, room_connections, hands >>

\* ------------------------------------------------------------ the system
\* the display name the client of a connection asks for
ClientNames(c) == IF c = 1 THEN {S("Alice")} ELSE {S("alice"), None}

\* the steps of the clients, of the handlers and of the relay tasks
Steps ==
  \/ \E r \in Rooms, req \in Requests : CreateRoom(r, req)
  \/ \E c \in Conns : ClientDrop(c)
  \/ \E c \in Conns, i \in Insts, r \in Rooms, pw \in SuppliedPasswords :
        \E dn \in ClientNames(c) : Connect(c, i, r, dn, pw)
  \/ \E c \in Conns : RejectClosed(c)
  \/ \E c \in Conns : Accept(c)
  \/ \E c \in Conns : SleepDone(c)
  \/ \E c \in Conns : WelcomeDone(c)
  \/ \E c \in Conns : Disconnect(c)
  \/ \E c \in Conns : TaskAwaited(c)
  \/ \E t \in Tasks : RelayStart(t)
  \/ \E t \in Tasks : RelayWake(t)
  \/ \E t \in Tasks, ran \in SUBSET Conns : RelayGathered(t, ran)

\* any number of connections over time, the store up and the clock still
Next == Steps \/ \E c \in Conns : NewConnection(c)
Spec == Init /\ [][Next]_vars

\* NumConns connections, the clock running and the keys of the rooms expiring
NextClock == Steps \/ Tick \/ \E r \in Rooms : ExpireMeta(r)
SpecClock == Init /\ [][NextClock]_vars

\* NumConns connections, the store and the broker failing and coming back
NextFaults == Steps \/ RedisDown \/ RedisUp
SpecFaults == Init /\ [][NextFaults]_vars

\* the steps of the handlers and of the relay tasks after the admission
Run ==
  \/ \E c \in Conns : ClientDrop(c)
  \/ \E c \in Conns : RejectClosed(c)
  \/ \E c \in Conns : Accept(c)
  \/ \E c \in Conns : SleepDone(c)
  \/ \E c \in Conns : WelcomeDone(c)
  \/ \E c \in Conns : Disconnect(c)
  \/ \E c \in Conns : TaskAwaited(c)
  \/ \E t \in Tasks : RelayStart(t)
  \/ \E t \in Tasks : RelayWake(t)
  \/ \E t \in Tasks, ran \in SUBSET Conns : RelayGathered(t, ran)

\* ---------------------------------- app.py:271-315: the message loop
\* the text frames of the clients: a JSON object, a JSON number, a text that
\* is not JSON
ObjectFrame == Dumps([text |-> S("hi")])
NumberFrame == DumpsValue(I(5))
PlainFrame == [json |-> "invalid", raw |-> "hi"]
Frames == {ObjectFrame, NumberFrame, PlainFrame}

\* app.py:279-287: json.loads(data), a dict for an object, the scalar for any
\* other JSON text, and the plain-text message when the text does not parse
PlainText(c, data, t) ==
  [ type          |-> S("message"),
    text          |-> S(data.raw),
    connection_id |-> S(ConnIdStr(c)),
    timestamp     |-> S(IsoFormat(t)) ]

ParseFrame(c, data, t) ==
  IF data.json = "invalid" THEN [py |-> "dict", val |-> PlainText(c, data, t)]
  ELSE IF data.json = "object" THEN [py |-> "dict", val |-> Loads(data)]
  ELSE LoadsValue(data)

\* a variant that sets the three fields whatever the message holds
FillDefaultsOverwrites(message, c, r, t) ==
  With(With(With(message, "connection_id", S(ConnIdStr(c))),
            "timestamp", S(IsoFormat(t))),
       "room_id", S(RoomIdStr(r)))

\* app.py:291-296: the fields the handler adds when the message lacks them
FillDefaults(message, c, r, t) ==
  LET m1 == IF "connection_id" \in DOMAIN message THEN message
            ELSE With(message, "connection_id", S(ConnIdStr(c)))
      m2 == IF "timestamp" \in DOMAIN m1 THEN m1
            ELSE With(m1, "timestamp", S(IsoFormat(t)))
  IN  IF "room_id" \in DOMAIN m2 THEN m2
      ELSE With(m2, "room_id", S(RoomIdStr(r)))

\* app.py:299-304: display_name out of conn:{id}; a failure of the store is
\* swallowed
WithDisplayName(message, ck, c, up) ==
  IF up /\ c \in DOMAIN ck /\ "display_name" \in DOMAIN ck[c]
  THEN With(message, "display_name", S(ck[c]["display_name"]))
  ELSE message

\* app.py:291-307 on the parsed frame: the envelope that is published
Envelope(parsed, ck, c, r, t, up) ==
  WithDisplayName(FillDefaults(parsed.val, c, r, t), ck, c, up)

\* app.py:273-315: receive_text returns a frame.  The membership tests and
\* the item assignments of app.py:291-296 raise TypeError on what is not a
\* dict and publish_message raises when the broker is down: `except
\* Exception` leaves the loop and the teardown runs.
Receive(c, data) ==
  LET r == h_room[c]
      parsed == ParseFrame(c, data, now)
      message == Envelope(parsed, conn_key, c, r, now, redis_up)
  IN
  /\ pc[c] = "loop"
  /\ sock[c] = "open"
  /\ IF parsed.py = "dict" /\ redis_up
     THEN /\ QueueRoom(pubsub, r, 1)
          /\ pubsub' = PublishTo(pubsub, r, message)
          /\ out_pub' = [by |-> c, msgs |-> << message >>]
          /\ out_sent' = NoSend
          /\ UNCHANGED << env, store, tables, tasks, hands >>
     ELSE Teardown(c)

\* an open room of two
OpenRequests ==
  { [ password |-> None, max_users |-> 2, owner_name |-> S("Alice"),
      destroy_on_owner_offline |-> TRUE ] }

\* one room, the clients sending frames of every kind
NextLoop ==
  \/ \E r \in Rooms, req \in OpenRequests : CreateRoom(r, req)
  \/ \E c \in Conns, i \in Insts, r \in Rooms :
        \E dn \in ClientNames(c) : Connect(c, i, r, dn, None)
  \/ Run
  \/ \E c \in Conns, data \in Frames : Receive(c, data)
SpecLoop == Init /\ [][NextLoop]_vars

\* one room, the clock running and the key of the room expiring, the clients
\* sending JSON objects
NextServed ==
  \/ \E r \in Rooms, req \in OpenRequests : CreateRoom(r, req)
  \/ \E c \in Conns, i \in Insts, r \in Rooms :
        \E dn \in ClientNames(c) : Connect(c, i, r, dn, None)
  \/ Run
  \/ \E c \in Conns : Receive(c, ObjectFrame)
  \/ Tick
  \/ \E r \in Rooms : ExpireMeta(r)
SpecServed == Init /\ [][NextServed]_vars

\* two instances behind one broker, one room, any number of connections over
\* time, the clients sending JSON objects
OwnNames(c) == IF c = 1 THEN {S("Alice")} ELSE {None}

NextInstances ==
  \/ \E r \in Rooms, req \in OpenRequests : CreateRoom(r, req)
  \/ \E c \in Conns, i \in AllInsts, r \in Rooms :
        \E dn \in OwnNames(c) : Connect(c, i, r, dn, None)
  \/ Run
  \/ \E c \in Conns : Receive(c, ObjectFrame)
  \/ \E c \in Conns : NewConnection(c)
SpecInstances == Init /\ [][NextInstances]_vars

\* the event loop runs every task that is ready, get_message returns after
\* its timeout of one second at the latest (app.py:70), and the gather of the
\* sends returns: each step of a relay task that stays possible is taken
RelayFairness ==
  \A t \in Tasks :
    /\ WF_vars(RelayStart(t))
    /\ WF_vars(RelayWake(t))
    /\ WF_vars(\E ran \in SUBSET Conns : RelayGathered(t, ran))
SpecLive == Init /\ [][NextFaults]_vars /\ RelayFairness

\* ----------------------------------------- other publishers on the broker
\* PUBLISH of a text on the channel of a room by a client of the broker that
\* is not this program: every subscription open on the channel queues it
Broadcast(ps, r, text) ==
  [t \in DOMAIN ps |->
     IF TaskRoom(t) = r
     THEN Append(ps[t], [type |-> "message", data |-> text])
     ELSE ps[t]]

\* a payload that is not JSON, one that is JSON but not an object
ForeignPayloads == {PlainFrame, NumberFrame}

ForeignPublish(r, text) ==
  /\ redis_up
  /\ \E t \in DOMAIN pubsub : TaskRoom(t) = r
  /\ QueueRoom(pubsub, r, 1)
  /\ pubsub' = Broadcast(pubsub, r, text)
  /\ Quiet
  /\ UNCHANGED << env, store, tables, tasks, hands >>

\* one room, its channel open to other publishers
NextBroker ==
  \/ \E r \in Rooms, req \in OpenRequests : CreateRoom(r, req)
  \/ \E c \in Conns, i \in Insts, r \in Rooms :
        \E dn \in ClientNames(c) : Connect(c, i, r, dn, None)
  \/ Run
  \/ \E r \in Rooms, text \in ForeignPayloads : ForeignPublish(r, text)
SpecBroker == Init /\ [][NextBroker]_vars

\* ------------------------------------------ the time-to-live of the members
\* backend.py:77: ttl = 600, the default lifetime of a room
UserTtl == RoomLifetime

\* a room that asks for a lifetime longer than the default
LongLifetime == RoomLifetime + 1
LongRequests ==
  { [ password |-> None, max_users |-> 2, owner_name |-> None,
      destroy_on_owner_offline |-> FALSE, expiry_seconds |-> LongLifetime ] }

\* backend.py:88-90: conn:{id} is written once, at the join, with a
\* time-to-live of ttl seconds that nothing renews
ExpireConn(c) ==
  /\ c \in DOMAIN conn_key
  /\ IsoTime(conn_key[c]["connected_at"]) + UserTtl < now
  /\ conn_key' = Without(conn_key, c)
  /\ Quiet
  /\ UNCHANGED << env, meta, users, users_at, pubsub, tables, tasks, hands >>

\* two rooms that outlive the metadata of their members, two clients that ask
\* for the same name up to the case of its letters
SameNames(c) == IF c = 1 THEN {S("Alice")} ELSE {S("alice"), S("Alice")}

NextNames ==
  \/ \E r \in AllRooms, req \in LongRequests : CreateRoom(r, req)
  \/ \E c \in Conns, i \in Insts, r \in AllRooms :
        \E dn \in SameNames(c) : Connect(c, i, r, dn, None)
  \/ Run
  \/ Tick
  \/ \E c \in Conns : ExpireConn(c)
SpecNames == Init /\ [][NextNames]_vars

\* ------------------------------------------------ passwords made of digits
\* a room whose password is a text of digits, and a room without password
DigitRequests ==
  { [ password |-> S("7"), max_users |-> 2, owner_name |-> None,
      destroy_on_owner_offline |-> FALSE ],
    [ password |-> None, max_users |-> 2, owner_name |-> None,
      destroy_on_owner_offline |-> FALSE ] }

DigitPasswords == {None, S("7"), S("bad")}

NextDigits ==
  \/ \E r \in Rooms, req \in DigitRequests : CreateRoom(r, req)
  \/ \E c \in Conns, i \in Insts, r \in Rooms, pw \in DigitPasswords :
        \E dn \in ClientNames(c) : Connect(c, i, r, dn, pw)
  \/ Run
  \/ \E c \in Conns : NewConnection(c)
SpecDigits == Init /\ [][NextDigits]_vars

\* a JSON object in which the client sets every field of the envelope itself,
\* in the shape of a presence event about another connection
ForgedFrame ==
  Dumps([ type          |-> S("presence"),
          event         |-> S("user_offline"),
          connection_id |-> S("c9"),
          display_name  |-> S("Mallory"),
          room_id       |-> S("r9"),
          timestamp     |-> S("T9"),
          online_count  |-> I(0) ])

EnvelopeFrames == {PlainFrame, ForgedFrame}

\* one long-lived room, the clock running and the metadata of the members
\* expiring, the clients sending plain text and forged envelopes
NextEnvelope ==
  \/ \E r \in Rooms, req \in LongRequests : CreateRoom(r, req)
  \/ \E c \in Conns, i \in Insts, r \in Rooms :
        \E dn \in OwnNames(c) : Connect(c, i, r, dn, None)
  \/ Run
  \/ \E c \in Conns, data \in EnvelopeFrames : Receive(c, data)
  \/ Tick
  \/ \E c \in Conns : ExpireConn(c)
SpecEnvelope == Init /\ [][NextEnvelope]_vars

\* ------------------------------------- routers/rooms.py: POST /{id}/close
\* request.client.host of the requests to close a room
Hosts == {"ip1", "ip2"}

\* routers/rooms.py:225-230
ClosureMsg(r, t) ==
  [ type      |-> S("system"),
    message   |-> S("Room has been closed by owner"),
    room_id   |-> S(RoomIdStr(r)),
    timestamp |-> S(IsoFormat(t)) ]

\* routers/rooms.py:212-220: the room is found and the request comes from the
\* address that created it
CloseAllowed(m, r, host) ==
  /\ HasRoom(m, r)
  /\ Get(GetRoom(m, r), "owner_ip", None) = S(host)

\* routers/rooms.py:205-234: 400 for a room that is not found, 401 for another
\* address than the owner's; else the keys of the room are deleted and the
\* closure is published on its channel.  Nothing else is done.
CloseRoom(r, host) ==
  /\ redis_up
  /\ r \in DOMAIN requested
  /\ IF CloseAllowed(meta, r, host)
     THEN /\ QueueRoom(pubsub, r, 1)
          /\ meta' = DeleteRoomMeta(meta, r)
          /\ users' = DeleteRoomUsers(users, r)
          /\ users_at' = DeleteRoomTtl(users_at, r)
          /\ pubsub' = PublishTo(pubsub, r, ClosureMsg(r, now))
          /\ out_pub' = [by |-> 0, msgs |-> << ClosureMsg(r, now) >>]
          /\ out_sent' = NoSend
          /\ UNCHANGED << env, conn_key, tables, tasks, hands >>
     ELSE /\ Quiet
          /\ UNCHANGED << env, store, pubsub, tables, tasks, hands >>

\* one room that its owner and others ask to close, the clients sending text
NextClose ==
  \/ \E r \in Rooms, req \in OpenRequests : CreateRoom(r, req)
  \/ \E c \in Conns, i \in Insts, r \in Rooms :
        \E dn \in OwnNames(c) : Connect(c, i, r, dn, None)
  \/ Run
  \/ \E c \in Conns : Receive(c, PlainFrame)
  \/ \E r \in Rooms, host \in Hosts : CloseRoom(r, host)
SpecClose == Init /\ [][NextClose]_vars

\* a handler that can run is run by the event loop: the awaits of the join
\* return, receive_text raises for a client that left, the awaited task ends
HandlerFairness ==
  \A c \in Conns :
    /\ WF_vars(RejectClosed(c))
    /\ WF_vars(Accept(c))
    /\ WF_vars(SleepDone(c))
    /\ WF_vars(WelcomeDone(c))
    /\ WF_vars(Disconnect(c))
    /\ WF_vars(TaskAwaited(c))
SpecCloseLive == SpecClose /\ RelayFairness /\ HandlerFairness

\* --------------------------------------- the time-to-live of room:users:{id}
\* backend.py:82-83: the key of the members lives ttl seconds from the last
\* SADD; no other call renews it
ExpireUsersKey(r) ==
  /\ users[r] # {}
  /\ users_at[r] + UserTtl < now
  /\ users' = DeleteRoomUsers(users, r)
  /\ users_at' = DeleteRoomTtl(users_at, r)
  /\ Quiet
  /\ UNCHANGED << env, meta, conn_key, pubsub, tables, tasks, hands >>

\* one room that outlives the keys of its members and that its owner may
\* close, the clock running and the keys expiring
NextMembers ==
  \/ \E r \in Rooms, req \in LongRequests : CreateRoom(r, req)
  \/ \E c \in Conns, i \in Insts, r \in Rooms :
        \E dn \in OwnNames(c) : Connect(c, i, r, dn, None)
  \/ Run
  \/ Tick
  \/ \E r \in Rooms : ExpireMeta(r)
  \/ \E r \in Rooms : ExpireUsersKey(r)
  \/ \E c \in Conns : ExpireConn(c)
  \/ \E r \in Rooms, host \in Hosts : CloseRoom(r, host)
SpecMembers == Init /\ [][NextMembers]_vars

\* ------------------------------------------------- two rooms on one instance
\* MaxRooms rooms, any number of connections over time, the clients sending
\* text
NextRooms ==
  \/ \E r \in AllRooms, req \in OpenRequests : CreateRoom(r, req)
  \/ \E c \in Conns, i \in Insts, r \in AllRooms :
        \E dn \in OwnNames(c) : Connect(c, i, r, dn, None)
  \/ Run
  \/ \E c \in Conns : Receive(c, PlainFrame)
  \/ \E c \in Conns : NewConnection(c)
SpecRooms == Init /\ [][NextRooms]_vars

\* ================================================================= claims
\* the connection is in the local registry of an instance
InRegistry(c) ==
  \E i \in AllInsts : \E r \in DOMAIN room_connections[i] : c \in room_connections[i][r]

\* a relay task that runs and that nobody has asked to stop
LiveRelay(t) == task_st[t] \in {"pending", "polling", "sending"} /\ ~ task_cancel[t]
RelaysOf(i, r) == {t \in Tasks : LiveRelay(t) /\ TaskInst(t) = i /\ TaskRoom(t) = r}

\* the step is the teardown of the handler of c (app.py:319-382)
TeardownStep(c) ==
  /\ pc[c] \in {"welcoming", "loop"}
  /\ pc'[c] \in {"await_task", "done"}

\* the events named `event` about connection c among published envelopes
EventsOf(msgs, event, c) ==
  { k \in 1..Len(msgs) :
      /\ Get(msgs[k], "event", None) = S(event)
      /\ Get(msgs[k], "connection_id", None) = S(ConnIdStr(c)) }

\* ---- C1
\* C1: on one instance at most one relay task is live for a room, in every
\* reachable state, whatever the interleaving of the handlers at their awaits.
C1_AtMostOneRelayPerRoom ==
  \A i \in AllInsts, r \in AllRooms : Cardinality(RelaysOf(i, r)) <= 1

\* ---- C2
\* C2: a connection that has passed the start of the relay task (app.py:209-213)
\* and is still in the local registry has, on its instance and for its room, a
\* relay task that is neither finished nor cancelled.
C2_JoinedHasLiveRelay ==
  \A c \in Conns :
    (pc[c] \in {"sleeping", "welcoming", "loop"} /\ InRegistry(c))
      => RelaysOf(h_inst[c], h_room[c]) # {}

\* ---- C3
\* what the broker hands to the subscriptions for the envelopes msgs
Delivery(msgs) ==
  [k \in 1..Len(msgs) |-> [type |-> "message", data |-> Dumps(msgs[k])]]

\* C3: an envelope published on the channel of a room is queued for every
\* open subscription of the room; a relay task that takes it sends, to every
\* connection of its local registry, a frame that decodes to the envelope,
\* field for field; and the sends of a pass do not depend on each other: while
\* the task is not cancelled, every connection of the pass whose socket is open
\* gets the frame, whichever other sends of the pass fail.
C3_RelayRoundTrip ==
  [][ /\ \A k \in 1..Len(out_pub'.msgs) :
           Loads(Dumps(out_pub'.msgs[k])) = out_pub'.msgs[k]
      /\ \A t \in Tasks :
           /\ ( /\ out_pub'.by # 0
                /\ t \in DOMAIN pubsub /\ t \in DOMAIN pubsub'
                /\ TaskRoom(t) = h_room[out_pub'.by] )
                => pubsub'[t] = pubsub[t] \o Delivery(out_pub'.msgs)
           /\ ( /\ task_st[t] = "polling"
                /\ t \in DOMAIN pubsub'
                /\ Len(pubsub'[t]) < Len(pubsub[t]) )
                => /\ task_st'[t] = "sending"
                   /\ pubsub'[t] = Tail(pubsub[t])
                   /\ task_send'[t].to = room_connections[TaskInst(t)][TaskRoom(t)]
                   /\ Loads(task_send'[t].frame) = Loads(Head(pubsub[t]).data)
           /\ (task_st[t] = "sending" /\ task_st'[t] # "sending" /\ ~ task_cancel[t])
                => out_sent'.relay = t
           /\ out_sent'.relay = t
                => /\ task_st[t] = "sending"
                   /\ out_sent'.frame = task_send[t].frame
                   /\ out_sent'.ok \cup out_sent'.failed \subseteq task_send[t].to
                   /\ out_sent'.ok \subseteq {c \in task_send[t].to : sock[c] = "open"}
                   /\ ~ task_cancel[t] =>
                        out_sent'.ok = {c \in task_send[t].to : sock[c] = "open"}
    ]_vars

\* a pass of a relay task in which one send failed and another succeeded
C3_Witness ==
  /\ out_sent.relay # NoTask
  /\ out_sent.ok # {}
  /\ out_sent.failed # {}

\* ---- C4
\* C4: a connection to which a send of a relay pass failed is, once the pass is
\* over, neither in the local registry nor in the membership of the room.
C4_FailedSendRemoved ==
  [][ \A c \in Conns :
        (out_sent'.relay # NoTask /\ c \in out_sent'.failed)
          => /\ ~ (InRegistry(c))'
             /\ c \notin users'[h_room[c]]
    ]_vars

\* ---- C5
\* the five checks of the admission, as the claim words them
RoomExists(r) == r \in DOMAIN meta
NotExpired(r) == ~ (IsoTime(meta[r]["expires_at"]) < now)
PasswordMatches(r, pw) ==
  requested[r].password = None \/ pw = requested[r].password
BelowMax(r) == Cardinality(users[r]) < requested[r].max_users
NameFree(r, c, dn) ==
  \A d \in users[r] :
    d \in DOMAIN conn_key
      => Lower(conn_key[d]["display_name"]) # Lower(FinalDisplayName(c, dn))

\* the close reason of the first check that fails, "ok" when none does
FirstFailure(r, c, dn, pw) ==
  IF ~ RoomExists(r) THEN "Room not found"
  ELSE IF ~ NotExpired(r) THEN "Room expired"
  ELSE IF ~ PasswordMatches(r, pw) THEN "Invalid password"
  ELSE IF ~ BelowMax(r) THEN "Room is full"
  ELSE IF ~ NameFree(r, c, dn) THEN NameTaken(FinalDisplayName(c, dn))
  ELSE "ok"

\* the step is the admission of the handler of c (app.py:151-196), the store up
AdmissionStep(c) == pc[c] = "idle" /\ pc'[c] # "idle" /\ redis_up

\* C5: the admission checks run in the order room exists, not expired,
\* password, occupancy, display name; the first that fails alone gives the
\* close reason, every rejection closes with code 1008, and the socket is
\* accepted only when the five checks pass.
C5_AdmissionOrder ==
  [][ \A c \in Conns :
        /\ AdmissionStep(c) =>
             LET first == FirstFailure(h_room'[c], c, display_name'[c], password'[c])
             IN  /\ (first = "ok") <=> (pc'[c] = "accepting")
                 /\ (first # "ok") =>
                      /\ pc'[c] = "rejecting"
                      /\ close_frame'[c] = [code |-> 1008, reason |-> first]
        /\ (sock[c] # "open" /\ sock'[c] = "open") => pc[c] = "accepting"
    ]_vars

\* an attempt on an expired room of which the password is wrong as well
C5_Witness ==
  \E c \in Conns :
    /\ pc[c] = "rejecting"
    /\ close_frame[c] = [code |-> 1008, reason |-> "Room expired"]
    /\ h_room[c] \in DOMAIN requested
    /\ requested[h_room[c]].password = S("pw")
    /\ password[c] = S("bad")

\* ---- C6
\* the step is one of a rejected attempt of c: the checks, the close
RejectionStep(c) ==
  \/ pc[c] = "idle" /\ pc'[c] = "rejecting"
  \/ pc[c] = "rejecting" /\ pc'[c] = "idle"

\* C6: a rejected attempt leaves the local registry, the table of the relay
\* tasks, the membership of the room and the metadata of the connections as
\* they are, sends no frame and publishes nothing; only the rejection for
\* Room expired changes the store, by deleting the room.
C6_RejectionChangesNothing ==
  [][ \A c \in Conns :
        RejectionStep(c) =>
          /\ room_connections' = room_connections
          /\ room_pubsub_tasks' = room_pubsub_tasks
          /\ conn_key' = conn_key
          /\ pubsub' = pubsub
          /\ sock'[c] = sock[c]
          /\ out_sent' = NoSend
          /\ out_pub' = NoPub
          /\ \/ meta' = meta /\ users' = users
             \/ /\ pc[c] = "rejecting"
                /\ close_frame[c].reason = "Room expired"
                /\ meta' = [r \in (DOMAIN meta) \ {h_room[c]} |-> meta[r]]
                /\ users' = [users EXCEPT ![h_room[c]] = {}]
    ]_vars

\* an attempt rejected for Room expired while the room has a member
C6_Witness ==
  \E c \in Conns :
    /\ pc[c] = "rejecting"
    /\ close_frame[c].reason = "Room expired"
    /\ h_room[c] \in DOMAIN meta
    /\ users[h_room[c]] # {}

\* ---- C7
\* C7: once the handler of a connection has ended, whatever ended it, the
\* connection is in no local registry, and neither in the membership of its
\* room nor in the metadata of the store.
C7_EndedHandlerCleanedUp ==
  \A c \in Conns :
    pc[c] = "done" =>
      /\ ~ InRegistry(c)
      /\ c \notin users[h_room[c]]
      /\ c \notin DOMAIN conn_key

C9_OwnerTeardownDeletesRoom ==
  [][ \A c \in Conns :
        ( /\ TeardownStep(c)
          /\ redis_up
          /\ h_room[c] \in DOMAIN meta
          /\ requested[h_room[c]].destroy_on_owner_offline
          /\ S(h_name[c]) = requested[h_room[c]].owner_name )
          => /\ h_room[c] \notin DOMAIN meta'
             /\ \E k \in 1..Len(out_pub'.msgs) :
                  out_pub'.msgs[k]["type"] = S("system")
    ]_vars

\* ---- C10
\* C10: an attempt that reaches the occupancy check of a room of max occupancy
\* N is rejected with Room is full when the membership has N members or more,
\* and is admitted, when its display name is free, when it has fewer than N.
C10_OccupancyGate ==
  [][ \A c \in Conns :
        ( /\ AdmissionStep(c)
          /\ RoomExists(h_room'[c])
          /\ NotExpired(h_room'[c])
          /\ PasswordMatches(h_room'[c], password'[c]) )
          => LET r == h_room'[c]
                 N == requested[r].max_users
             IN  /\ Cardinality(users[r]) >= N =>
                       /\ pc'[c] = "rejecting"
                       /\ close_frame'[c].reason = "Room is full"
                 /\ (Cardinality(users[r]) < N /\ NameFree(r, c, display_name'[c]))
                       => pc'[c] = "accepting"
    ]_vars

\* a connection admitted to a room of one, the member that filled the room
\* having just been removed by its teardown
C10_Witness ==
  \E c, d \in Conns :
    /\ c # d
    /\ h_room[c] = h_room[d]
    /\ h_room[c] \in DOMAIN requested
    /\ requested[h_room[c]].max_users = 1
    /\ pc[d] = "await_task"
    /\ pc[c] = "accepting"

\* ---- C11
\* d has joined room r: its membership add is done, its teardown is not
Joined(d, r) ==
  /\ pc[d] \in {"welcoming", "loop"}
  /\ h_room[d] = r
  /\ d \in users[r]

\* C11: an attempt that passes the other checks of room R is rejected as name
\* taken when a connection that has joined R holds the same name up to the
\* case of its letters, and is admitted when no connection of R does, whoever
\* holds the name in another room.
C11_NameUniquePerRoom ==
  [][ \A c \in Conns :
        ( /\ AdmissionStep(c)
          /\ RoomExists(h_room'[c])
          /\ NotExpired(h_room'[c])
          /\ PasswordMatches(h_room'[c], password'[c])
          /\ BelowMax(h_room'[c]) )
          => LET r == h_room'[c]
                 name == FinalDisplayName(c, display_name'[c])
                 held == \E d \in Conns \ {c} :
                           Joined(d, r) /\ Lower(h_name[d]) = Lower(name)
             IN  /\ held => /\ pc'[c] = "rejecting"
                            /\ close_frame'[c].reason = NameTaken(name)
                 /\ ~ held => pc'[c] = "accepting"
    ]_vars

\* ---- C12
\* the attempt of this step got past the password check (app.py:167-174)
PassesPassword(c) ==
  ~ (pc'[c] = "rejecting" /\ close_frame'[c].reason = "Invalid password")

\* C12: an attempt on a room created with a non-empty password P, the room in
\* the store and not expired, passes the password check if and only if the
\* password it supplies is P; on a room created without password every
\* attempt passes it.
C12_PasswordExact ==
  [][ \A c \in Conns :
        ( /\ AdmissionStep(c)
          /\ RoomExists(h_room'[c])
          /\ NotExpired(h_room'[c]) )
          => LET P == requested[h_room'[c]].password
             IN  /\ Truthy(P) => (PassesPassword(c) <=> password'[c] = P)
                 /\ ~ Truthy(P) => PassesPassword(c)
    ]_vars

ExpiryPassed(r) ==
  /\ r \in DOMAIN requested
  /\ IF r \in DOMAIN meta
     THEN IsoTime(meta[r]["expires_at"]) < now
     ELSE ExpirySeconds(requested[r]) < now

\* C14: once the expiry time of a room has passed, no frame of a connected
\* client of the room is published and no relay task hands a message of the
\* room to a local connection.
C14_ExpiredNeverServed ==
  [][ /\ \A c \in Conns :
           (pc[c] = "loop" /\ pc'[c] = "loop" /\ out_pub'.by = c)
             => ~ ExpiryPassed(h_room[c])
      /\ \A t \in Tasks :
           out_sent'.relay = t => ~ ExpiryPassed(TaskRoom(t))
    ]_vars

\* ---- C15
\* C15: every frame received in the message loop is published as exactly one
\* message and the handler stays in the loop, whatever the frame; the loop is
\* left only when the transport is closed or fails.
C15_EveryFramePublished ==
  [][ \A c \in Conns :
        /\ (pc[c] = "loop" /\ pc'[c] # "loop") => sock[c] # "open"
        /\ (pc[c] = "loop" /\ out_pub'.by = c /\ pc'[c] = "loop")
             => Len(out_pub'.msgs) = 1
    ]_vars

\* ---- C16
\* the step is the publish of a frame of the client of c (app.py:307)
FramePublished(c) == pc[c] = "loop" /\ pc'[c] = "loop" /\ out_pub'.by = c

\* after the step a subscription of instance i on room r holds, as its last
\* message, what the broker made of the envelope published in the step
QueuedOn(i, r) ==
  \E t \in DOMAIN pubsub' :
    /\ TaskInst(t) = i
    /\ TaskRoom(t) = r
    /\ pubsub'[t] # << >>
    /\ pubsub'[t][Len(pubsub'[t])] = Delivery(out_pub'.msgs)[1]

\* C16: when the handler of a connection of one instance publishes a frame of
\* its client while another instance holds a connection of the room in its
\* message loop, the frame is on its way to the connections of both: it is
\* queued for a relay task of each of the two instances, and the pass of a
\* relay task that takes a message sends it to every connection of the
\* registry of its own instance.
C16_CrossInstanceDelivery ==
  [][ /\ \A c, d \in Conns :
           ( /\ FramePublished(c)
             /\ pc[d] = "loop"
             /\ h_room[d] = h_room[c]
             /\ h_inst[d] # h_inst[c] )
             => /\ QueuedOn(h_inst[d], h_room[c])
                /\ QueuedOn(h_inst[c], h_room[c])
      /\ \A t \in Tasks :
           (task_st[t] = "polling" /\ task_st'[t] = "sending")
             => /\ task_send'[t].to = room_connections[TaskInst(t)][TaskRoom(t)]
                /\ Loads(task_send'[t].frame) = Loads(Head(pubsub[t]).data)
    ]_vars

\* ---- C17
\* the registry of the instance of task t has no entry for its room, or an
\* empty one
RegistryEmpty(t) ==
  LET rc == room_connections[TaskInst(t)]
  IN  TaskRoom(t) \notin DOMAIN rc \/ rc[TaskRoom(t)] = {}

\* C17: a relay task that runs while the registry of its instance holds no
\* connection of its room, and that nobody has cancelled, ends, unless a
\* connection of the room is registered before its next look at the registry.
C17_EmptyRegistryEndsRelay ==
  \A t \in Tasks :
    (LiveRelay(t) /\ RegistryEmpty(t))
      ~> (task_st[t] = "done" \/ ~ RegistryEmpty(t))

\* a relay task polls, not cancelled, a message waiting in its subscription,
\* while the registry holds no connection of its room
C17_Witness ==
  \E t \in Tasks :
    /\ task_st[t] = "polling"
    /\ ~ task_cancel[t]
    /\ RegistryEmpty(t)
    /\ t \in DOMAIN pubsub
    /\ pubsub[t] # << >>

\* ---- C18
\* C18: when a relay task that holds a subscription ends, whichever way, the
\* step that ends it closes the subscription and leaves the table of its
\* instance without an entry of its room for the task.
C18_EndedRelayReleased ==
  [][ \A t \in Tasks :
        (t \in DOMAIN pubsub /\ task_st[t] # "done" /\ task_st'[t] = "done")
          => /\ t \notin DOMAIN pubsub'
             /\ LET table == room_pubsub_tasks'[TaskInst(t)]
                IN  TaskRoom(t) \in DOMAIN table => table[TaskRoom(t)] # t
    ]_vars

\* a relay task has ended in the step in which the gather of its sends
\* returned, and nothing of its subscription is left
C18_Witness ==
  \E t \in Tasks :
    /\ out_sent.relay = t
    /\ task_st[t] = "done"
    /\ t \notin DOMAIN pubsub

\* ---- C19
\* the step is the one in which relay task t takes the first message of its
\* subscription
Takes(t) ==
  /\ task_st[t] = "polling"
  /\ ~ task_cancel[t]
  /\ pubsub[t] # << >>
  /\ t \notin DOMAIN pubsub' \/ Len(pubsub'[t]) < Len(pubsub[t])

\* C19: a relay task that takes a message whose payload does not decode sends
\* nothing for it and leaves the registry as it is; while the registry holds
\* a connection of its room the task goes on polling with the rest of its
\* subscription, and the well-formed message it takes next is sent to every
\* connection of the registry.
C19_UndecodableSkipped ==
  [][ \A t \in Tasks :
        Takes(t) =>
          LET message == Head(pubsub[t])
              rc == room_connections[TaskInst(t)]
          IN  /\ ~ Decodable(message.data) =>
                   /\ out_sent' = NoSend
                   /\ task_send'[t].to = {}
                   /\ room_connections' = room_connections
                   /\ ~ RegistryEmpty(t) =>
                        /\ task_st'[t] = "polling"
                        /\ pubsub'[t] = Tail(pubsub[t])
              /\ (Decodable(message.data) /\ ~ RegistryEmpty(t)) =>
                   /\ task_st'[t] = "sending"
                   /\ task_send'[t].to = rc[TaskRoom(t)]
                   /\ Loads(task_send'[t].frame) = Loads(message.data)
    ]_vars

\* a relay task is about to take a payload that is not JSON, a well-formed
\* message behind it, while the registry holds a connection of its room
C19_Witness ==
  \E t \in Tasks :
    /\ task_st[t] = "polling"
    /\ ~ task_cancel[t]
    /\ ~ RegistryEmpty(t)
    /\ t \in DOMAIN pubsub
    /\ Len(pubsub[t]) = 2
    /\ pubsub[t][1].data = PlainFrame
    /\ Decodable(pubsub[t][2].data)

\* ---- C20
\* a relay task of instance i holds a subscription on the channel of room r
Subscribed(i, r) ==
  \E t \in DOMAIN pubsub :
    /\ TaskInst(t) = i
    /\ TaskRoom(t) = r
    /\ task_st[t] \in {"polling", "sending"}

\* C20: when a handler adds its connection to the membership of the room, and
\* when it publishes the user_online of the connection, a relay task of its
\* instance is subscribed to the channel of the room, and the user_online is
\* queued for it.
C20_SubscribedBeforeJoin ==
  [][ \A c \in Conns :
        /\ (c \notin users[h_room[c]] /\ c \in users'[h_room[c]])
             => Subscribed(h_inst[c], h_room[c])
        /\ (pc[c] = "welcoming" /\ pc'[c] = "loop")
             => /\ Subscribed(h_inst[c], h_room[c])
                /\ QueuedOn(h_inst[c], h_room[c])
    ]_vars

\* ---- C21
\* the step completes the teardown of the handler of c
TeardownCompletes(c) ==
  /\ pc[c] \in {"welcoming", "loop", "await_task"}
  /\ pc'[c] = "done"

\* another handler of the instance and the room of c is between its
\* admission and its message loop
JoinInProgress(c) ==
  \E d \in Conns \ {c} :
    /\ h_inst[d] = h_inst[c]
    /\ h_room[d] = h_room[c]
    /\ pc[d] \in {"accepting", "sleeping", "welcoming"}

\* C21: when the teardown of a connection completes, the registry of its
\* instance holding no other connection of the room and no other join to the
\* room being in progress, the instance has no registry entry and no entry in
\* the table of the relay tasks for the room, no relay task of the room is
\* live, and the transport is closed; and a handler that awaits the cancelled
\* relay task only goes on when the task has ended.
C21_TeardownReleasesRoom ==
  [][ \A c \in Conns :
        /\ ( /\ TeardownCompletes(c)
             /\ ~ JoinInProgress(c)
             /\ \A d \in Conns \ {c} :
                  ~ ( /\ h_room[c] \in DOMAIN room_connections[h_inst[c]]
                      /\ d \in room_connections[h_inst[c]][h_room[c]] ) )
             => /\ h_room[c] \notin DOMAIN room_connections'[h_inst[c]]
                /\ h_room[c] \notin DOMAIN room_pubsub_tasks'[h_inst[c]]
                /\ \A t \in Tasks :
                     (TaskInst(t) = h_inst[c] /\ TaskRoom(t) = h_room[c])
                       => task_st'[t] \in {"none", "done"}
                /\ sock'[c] = "closed"
        /\ (pc[c] = "await_task" /\ pc'[c] # "await_task")
             => task_st[h_await[c]] = "done"
    ]_vars

\* ---- C22
\* the connections the registry of instance i holds for room r
RegistryOf(rcs, i, r) == IF r \in DOMAIN rcs[i] THEN rcs[i][r] ELSE {}

\* C22: between the step in which a pass of a relay task reads the registry
\* and the step in which its sends are performed no connection is removed
\* from the registry of the room, and every connection a send is attempted to
\* is in the registry at the time of the send.
C22_NoSendAfterRemoval ==
  [][ \A t \in Tasks :
        /\ (task_st[t] = "sending" /\ task_st'[t] = "sending")
             => RegistryOf(room_connections, TaskInst(t), TaskRoom(t))
                  \subseteq RegistryOf(room_connections', TaskInst(t), TaskRoom(t))
        /\ out_sent'.relay = t
             => (out_sent'.ok \cup out_sent'.failed)
                  \subseteq RegistryOf(room_connections, TaskInst(t), TaskRoom(t))
    ]_vars

\* ---- C23
\* the step is the one in which the handler of c adds its membership and
\* sends the welcome frame (app.py:221-253)
WelcomeStep(c) == pc[c] \in {"accepting", "sleeping"} /\ pc'[c] = "welcoming"

\* C23: a handler sends a frame of its own only in the step that adds its
\* membership, and then one frame, the welcome frame, to its own connection;
\* the online_count of the frame is the size of the membership after the add,
\* at least 1, and its roster holds the connection id and the display name of
\* the joiner; user_online is published in a later step, and only when the
\* send of the welcome frame succeeded.
C23_WelcomeFrame ==
  [][ /\ \A c \in Conns :
           /\ WelcomeStep(c) =>
                LET welcome == Loads(out_sent'.frame)
                IN  /\ out_sent'.relay = NoTask
                    /\ out_sent'.ok \cup out_sent'.failed = {c}
                    /\ welcome["type"] = S("system")
                    /\ welcome["connection_id"] = S(ConnIdStr(c))
                    /\ c \in users'[h_room[c]]
                    /\ welcome["online_count"] = I(Cardinality(users'[h_room[c]]))
                    /\ welcome["online_count"].val >= 1
                    /\ \E e \in welcome["online_users"].val :
                         /\ e.connection_id = ConnIdStr(c)
                         /\ e.display_name = h_name'[c]
                    /\ EventsOf(out_pub'.msgs, "user_online", c) = {}
           /\ EventsOf(out_pub'.msgs, "user_online", c) # {} =>
                /\ pc[c] = "welcoming"
                /\ h_welcomed[c]
      /\ (out_sent' # NoSend /\ out_sent'.relay = NoTask)
           => \E c \in Conns : WelcomeStep(c)
    ]_vars

\* the welcome frame of the second member of a room has been sent
C23_Witness ==
  /\ out_sent # NoSend
  /\ out_sent.relay = NoTask
  /\ out_sent.ok # {}
  /\ Loads(out_sent.frame)["online_count"] = I(2)

\* ---- C24
\* the frame is a JSON object that holds field k
Supplies(data, k) == data.json = "object" /\ k \in DOMAIN data.members

\* the value the claim gives field k of the envelope of a frame of c
ClaimedField(data, k, c) ==
  IF Supplies(data, k) THEN LoadsValue(data.members[k])
  ELSE IF k = "connection_id" THEN S(ConnIdStr(c))
  ELSE IF k = "timestamp" THEN S(IsoFormat(now))
  ELSE S(RoomIdStr(h_room[c]))

\* envelope e carries what the client sent in the frame
Carries(e, data) ==
  IF data.json = "object"
  THEN \A k \in (DOMAIN data.members) \ {"display_name"} :
         k \in DOMAIN e /\ e[k] = LoadsValue(data.members[k])
  ELSE "text" \in DOMAIN e /\ e["text"] = S(data.raw)

CloseStep(r) ==
  /\ HasRoom(meta, r)
  /\ ~ HasRoom(meta', r)
  /\ out_pub' = [by |-> 0, msgs |-> << ClosureMsg(r, now) >>]

\* room r was created and its owner has closed it
RoomClosed(r) == r \in DOMAIN requested /\ ~ HasRoom(meta, r)

\* where the clock stands still the key of a room goes with close_room only
OnlyCloseDeletes ==
  [][ \A r \in Rooms : (HasRoom(meta, r) /\ ~ HasRoom(meta', r)) => CloseStep(r) ]_vars

\* C25: a connection of a room that its owner has closed leaves the registry
\* of its instance, and the handler of a connection of a closed room does not
\* go on publishing the frames of the client for ever.
C25_ClosedRoomEmptied ==
  \A c \in Conns :
    /\ (RoomClosed(h_room[c]) /\ InRegistry(c)) ~> ~ InRegistry(c)
    /\ (RoomClosed(h_room[c]) /\ pc[c] = "loop") ~> (pc[c] # "loop")

\* ---- C26
\* C26: the user_offline event that the teardown of a connection publishes
\* carries the display name of the user_online event published when the
\* connection joined, which is the final display name of the handler.
C26_OfflineNameIsOnlineName ==
  [][ \A c \in Conns :
        (pc[c] = "loop" /\ TeardownStep(c)) =>
          \A k \in EventsOf(out_pub'.msgs, "user_offline", c) :
            out_pub'.msgs[k]["display_name"] = S(h_name[c])
    ]_vars

\* ---- C27
\* C27: a user_offline event is published for a connection only after a
\* user_online event was published for it: the teardown that publishes it is
\* the teardown of a handler that has reached its message loop, which a
\* handler does by publishing user_online (app.py:257-266).
C27_OfflineAfterOnline ==
  [][ \A c \in Conns :
        (TeardownStep(c) /\ EventsOf(out_pub'.msgs, "user_offline", c) # {}) =>
          pc[c] = "loop"
    ]_vars

\* a handler reaches its message loop in the step that publishes user_online
OnlineAtLoopEntry ==
  [][ \A c \in Conns :
        (pc[c] # "loop" /\ pc'[c] = "loop") <=>
          (out_pub'.by = c /\ EventsOf(out_pub'.msgs, "user_online", c) # {})
    ]_vars

\* ---- C28
\* the display name stored for a member
StoredName(c) == conn_key[c]["display_name"]

\* C28: no two connections that are members of the same room have display
\* names that are equal up to the case of their letters.
C28_MemberNamesDistinct ==
  \A r \in AllRooms : \A c, d \in GetUsersInRoom(users, r) :
    (c # d /\ c \in DOMAIN conn_key /\ d \in DOMAIN conn_key) =>
      Lower(StoredName(c)) # Lower(StoredName(d))

\* ---- C29
\* the connections whose handler has added itself to the members of room r
\* and has not run its teardown
Added(r) == {c \in Conns : pc[c] \in {"welcoming", "loop"} /\ h_room[c] = r}

\* C29: the members of a room that exists and has not expired are the
\* connections whose handler has performed the add and not the remove.
C29_MembersAreJoinedHandlers ==
  \A r \in Rooms :
    (RoomExists(r) /\ NotExpired(r)) => GetUsersInRoom(users, r) = Added(r)

\* the key of the members has expired under a handler that serves its client
C29_KeyExpiredUnderHandler ==
  \E c \in Conns :
    /\ pc[c] = "loop"
    /\ sock[c] = "open"
    /\ InRegistry(c)
    /\ RoomExists(h_room[c]) /\ NotExpired(h_room[c])
    /\ c \notin GetUsersInRoom(users, h_room[c])

\* ---- C30
\* C30: no frame of a client makes the message loop publish an envelope of
\* type presence or system on the channel of the room.
C30_ClientCannotForgePresence ==
  [][ \A c \in Conns :
        FramePublished(c) =>
          \A k \in 1..Len(out_pub'.msgs) :
            Get(out_pub'.msgs[k], "type", None) \notin {S("presence"), S("system")}
    ]_vars

\* a relay task hands to sockets the user_offline event that a client forged
C30_ForgedDelivered ==
  /\ out_sent.relay # NoTask
  /\ out_sent.ok # {}
  /\ out_sent.frame = Dumps(With(Loads(ForgedFrame), "display_name", S("Alice")))

\* ---- C31
\* the room named in the frame that a relay task sends
FrameRoom(frame) == Get(Loads(frame), "room_id", None)

\* C31: the sends of a pass of the relay task of room R are created for the
\* connections registered under R in the registry of its instance, and the
\* frame that the task sends, an envelope published on the channel of R, goes
\* to connections that joined R only.
C31_RelayStaysInRoom ==
  [][ \A t \in Tasks :
        /\ (task_st[t] = "polling" /\ task_st'[t] = "sending") =>
             task_send'[t].to \subseteq RegistryOf(room_connections, TaskInst(t), TaskRoom(t))
        /\ out_sent'.relay = t =>
             \A c \in out_sent'.ok \cup out_sent'.failed :
               /\ h_room[c] = TaskRoom(t)
               /\ h_inst[c] = TaskInst(t)
               /\ FrameRoom(out_sent'.frame) = S(RoomIdStr(h_room[c]))
    ]_vars

\* a relay task sends a frame to the connection of its room while a
\* connection that joined another room of the instance is in its message loop
C31_Witness ==
  /\ out_sent.relay # NoTask
  /\ out_sent.ok # {}
  /\ \E d \in Conns :
       /\ pc[d] = "loop"
       /\ sock[d] = "open"
       /\ InRegistry(d)
       /\ h_inst[d] = TaskInst(out_sent.relay)
       /\ h_room[d] # TaskRoom(out_sent.relay)
       /\ LiveRelay(d)
       /\ d \notin out_sent.ok

\* ---- C32
\* the step leaves the messages of subscription t as they are, or queues what
\* is published in the step behind them, or hands the oldest of them to the
\* task, which holds no pass, and a pass made of it carries that message
QueueStep(t) ==
  \/ pubsub'[t] = pubsub[t]
  \/ /\ out_pub'.msgs # << >>
     /\ pubsub'[t] = pubsub[t] \o Delivery(out_pub'.msgs)
  \/ /\ task_st[t] = "polling"
     /\ pubsub[t] # << >>
     /\ pubsub'[t] = Tail(pubsub[t])
     /\ task_st'[t] = "sending" =>
          Loads(task_send'[t].frame) = Loads(Head(pubsub[t]).data)

\* C32: the order of a room is kept.  A subscription holds the envelopes of
\* its channel in the order of their publication and a relay task takes the
\* oldest one only, when it holds no pass; the pass it awaits is not changed
\* and is sent once, as it was made, before the next message is taken: a
\* connection that one relay task sends two envelopes to gets them in the
\* order of their publication.  The handler of a client publishes, in the
\* step in which it receives a frame, the envelope of that frame and nothing
\* else: the frames of a client are published in the order of their receipt.
C32_OrderKept ==
  [][ /\ \A t \in Tasks :
           /\ (t \in DOMAIN pubsub /\ t \in DOMAIN pubsub') => QueueStep(t)
           /\ (task_st[t] = "sending" /\ task_st'[t] = "sending") =>
                /\ task_send'[t] = task_send[t]
                /\ t \in DOMAIN pubsub' => \E k \in 0..Len(out_pub'.msgs) :
                                             Len(pubsub'[t]) = Len(pubsub[t]) + k
           /\ (task_st[t] = "sending" /\ task_st'[t] # "sending") =>
                /\ out_sent'.relay \in {t, NoTask}
                /\ out_sent'.relay = NoTask => task_cancel[t]
                /\ t \in DOMAIN pubsub' => pubsub'[t] = pubsub[t]
           /\ out_sent'.relay = t =>
                /\ task_st[t] = "sending"
                /\ task_st'[t] # "sending"
                /\ out_sent'.frame = task_send[t].frame
                /\ out_sent'.ok \cup out_sent'.failed \subseteq task_send[t].to
      /\ \A c \in Conns :
           FramePublished(c) =>
             \E data \in Frames :
               /\ ParseFrame(c, data, now).py = "dict"
               /\ out_pub'.msgs =
                    << Envelope(ParseFrame(c, data, now), conn_key, c, h_room[c],
                                now, redis_up) >>
    ]_vars

\* a relay task has sent an envelope to a connection while a different one,
\* published after it, waits in its subscription
C32_Witness ==
  /\ out_sent.relay # NoTask
  /\ out_sent.ok # {}
  /\ out_sent.relay \in DOMAIN pubsub
  /\ pubsub[out_sent.relay] # << >>
  /\ Head(pubsub[out_sent.relay]).data # out_sent.frame
  /\ task_st[out_sent.relay] = "polling"

====
